---- MODULE Spec2Model ----
(* Model of src/main.py: the blank-page classifier is_page_blank, the      *)
(* filter remove_blank_pages and the host run_app that drives them.        *)
(* pypdf (PdfReader, PdfWriter, page objects) is a library outside the     *)
(* repository: every call into it that can fail is modelled with its       *)
(* failure as one of the possible outcomes.                                *)
EXTENDS Integers, Sequences, FiniteSets, TLC

\* ---------------------------------------------------------------- bounds
MaxTextLen == 2
MaxEntries == 2
MaxAnnots == 1
MaxPages == 3
MaxRuns == 2

\* ------------------------------------------------------------ page model
Chars == {" ", "\n", "a"}
Whitespace == {" ", "\n"}

Strs(n) == UNION {[1..k -> Chars] : k \in 0..n}

\* page.extract_text(): a string, None, or an exception of the library
Texts ==
  {[k |-> "str", s |-> s] : s \in Strs(MaxTextLen)}
    \cup {[k |-> "none", s |-> <<>>], [k |-> "raise", s |-> <<>>]}

\* page.get("/Annots"): absent (None) or an array of n annotations
Annots ==
  {[k |-> "absent", n |-> 0]} \cup {[k |-> "array", n |-> n] : n \in 0..MaxAnnots}

\* one value of the /XObject mapping: what reading its /Subtype gives
EntryKinds == {"Image", "Form", "Fail"}

Entries == UNION {[1..k -> EntryKinds] : k \in 0..MaxEntries}

\* resources.get("/XObject"): absent, a mapping, a reference that does not
\* resolve (get_object raises), or a fetch that raises
XObjects ==
  {[k |-> "absent", entries |-> <<>>], [k |-> "raise", entries |-> <<>>],
   [k |-> "unresolvable", entries |-> <<>>]}
    \cup {[k |-> "dict", entries |-> e] : e \in Entries}

NoXObject == [k |-> "absent", entries |-> <<>>]

\* page.get("/Resources"): absent, a fetch that raises, or a mapping with
\* possibly other keys (fonts ...) and possibly an /XObject key
Resources ==
  {[k |-> "absent", other |-> FALSE, xobject |-> NoXObject],
   [k |-> "raise", other |-> FALSE, xobject |-> NoXObject]}
    \cup {[k |-> "dict", other |-> o, xobject |-> x] : o \in BOOLEAN, x \in XObjects}

AllPages == [text : Texts, annots : Annots, resources : Resources]

\* ------------------------------------------------------------ classifier
RECURSIVE lstrip(_)
lstrip(s) ==
  IF s = <<>> THEN s
  ELSE IF Head(s) \in Whitespace THEN lstrip(Tail(s)) ELSE s

RECURSIVE rstrip(_)
rstrip(s) ==
  IF s = <<>> THEN s
  ELSE IF s[Len(s)] \in Whitespace THEN rstrip(SubSeq(s, 1, Len(s) - 1)) ELSE s

\* the text used without trimming
strip_noop(s) == s

strip(s) == rstrip(lstrip(s))

\* (page.extract_text() or "")
TextOrEmpty(t) == IF t.k = "str" THEN t.s ELSE <<>>

\* truthiness of page.get("/Annots")
AnnotsTruthy(a) == a.k = "array" /\ a.n > 0

\* truthiness of the resources mapping and of the /XObject mapping
ResourcesTruthy(r) == r.k = "dict" /\ (r.other \/ r.xobject.k # "absent")

XObjectsTruthy(x) == x.k = "unresolvable" \/ (x.k = "dict" /\ Len(x.entries) > 0)

Ret(b, reads, sw) == [kind |-> "return", blank |-> b, reads |-> reads, swallowed |-> sw]

Raise(reads) == [kind |-> "raise", blank |-> FALSE, reads |-> reads, swallowed |-> FALSE]

NoResult == [kind |-> "none", blank |-> FALSE, reads |-> <<>>, swallowed |-> FALSE]

Probes(n) == [i \in 1..n |-> "/Subtype"]

\* the for loop of lines 30-32 inside the try of lines 29-35: entries are
\* probed in order; an image returns at once, a failing entry raises into
\* the except clause, which ends the whole loop
RECURSIVE ScanXObjects(_, _)
ScanXObjects(entries, i) ==
  IF i > Len(entries) THEN [found |-> FALSE, swallowed |-> FALSE, n |-> Len(entries)]
  ELSE IF entries[i] = "Fail" THEN [found |-> FALSE, swallowed |-> TRUE, n |-> i]
  ELSE IF entries[i] = "Image" THEN [found |-> TRUE, swallowed |-> FALSE, n |-> i]
  ELSE ScanXObjects(entries, i + 1)

\* lines 29-35
InspectXObjects(x, reads) ==
  IF x.k = "unresolvable" THEN Ret(TRUE, reads \o <<"get_object">>, TRUE)
  ELSE LET r == ScanXObjects(x.entries, 1)
           rd == reads \o <<"get_object">> \o Probes(r.n)
       IN  IF r.found THEN Ret(FALSE, rd, FALSE) ELSE Ret(TRUE, rd, r.swallowed)

\* lines 25-37
InspectResources(page, reads) ==
  LET r == page.resources
      rd1 == reads \o <<"/Resources">>
      rd2 == rd1 \o <<"/XObject">>
  IN  IF r.k = "raise" THEN Raise(rd1)
      ELSE IF ~ResourcesTruthy(r) THEN Ret(TRUE, rd1, FALSE)
      ELSE IF r.xobject.k = "raise" THEN Raise(rd2)
      ELSE IF ~XObjectsTruthy(r.xobject) THEN Ret(TRUE, rd2, FALSE)
      ELSE InspectXObjects(r.xobject, rd2)

\* a classifier that gathers the three signals before deciding
is_page_blank_eager(page) ==
  LET res == InspectResources(page, <<"extract_text", "/Annots">>)
  IN  IF page.text.k = "raise" THEN Raise(<<"extract_text">>)
      ELSE IF res.kind = "raise" THEN res
      ELSE IF strip(TextOrEmpty(page.text)) # <<>> THEN Ret(FALSE, res.reads, res.swallowed)
      ELSE IF AnnotsTruthy(page.annots) THEN Ret(FALSE, res.reads, res.swallowed)
      ELSE res

is_page_blank(page) ==
  IF page.text.k = "raise" THEN Raise(<<"extract_text">>)
  ELSE IF strip(TextOrEmpty(page.text)) # <<>> THEN Ret(FALSE, <<"extract_text">>, FALSE)
  ELSE IF AnnotsTruthy(page.annots) THEN Ret(FALSE, <<"extract_text", "/Annots">>, FALSE)
  ELSE InspectResources(page, <<"extract_text", "/Annots">>)

\* ------------------------------------------------------- byte buffers
\* A buffer is a sequence of tokens: a header, page objects (object number
\* and page dictionary), possibly an /Encrypt entry, and the end marker.
NoPage ==
  [text |-> [k |-> "none", s |-> <<>>], annots |-> [k |-> "absent", n |-> 0],
   resources |-> [k |-> "absent", other |-> FALSE, xobject |-> NoXObject]]

Tok(t) == [t |-> t, num |-> 0, dict |-> NoPage]

PageTok(n, p) == [t |-> "page", num |-> n, dict |-> p]

IsPage(tok) == tok.t = "page"

PageToks(b) == SelectSeq(b, IsPage)

\* the page dictionaries of a buffer, in file order
PagesOf(b) == [i \in 1..Len(PageToks(b)) |-> PageToks(b)[i].dict]

\* PdfReader(BytesIO(pdf_bytes)), line 45: raises unless the buffer has the
\* header and the end marker
Parseable(b) == Len(b) >= 2 /\ b[1].t = "header" /\ b[Len(b)].t = "eof"

\* len(reader.pages), line 48: raises on a document that needs a password
Encrypted(b) == \E i \in 1..Len(b) : b[i].t = "encrypt"

\* writer.write(output); output.read(), lines 57-60: objects are renumbered
PdfWrite(pages) ==
  <<Tok("header")>> \o [i \in 1..Len(pages) |-> PageTok(i, pages[i])] \o <<Tok("eof")>>

\* a well-formed file as a user uploads it (object numbers are the file's own)
FileOf(pages) ==
  <<Tok("header")>> \o [i \in 1..Len(pages) |-> PageTok(2 * i, pages[i])] \o <<Tok("eof")>>

\* --------------------------------------------------------------- inputs
Str(s) == [k |-> "str", s |-> s]

NoAnnots == [k |-> "absent", n |-> 0]

NoResources == [k |-> "absent", other |-> FALSE, xobject |-> NoXObject]

WithXObjects(e) ==
  [k |-> "dict", other |-> TRUE, xobject |-> [k |-> "dict", entries |-> e]]

PText == [text |-> Str(<<"a">>), annots |-> NoAnnots, resources |-> NoResources]

PBlank == [text |-> Str(<<>>), annots |-> NoAnnots, resources |-> NoResources]

PAnnot ==
  [text |-> Str(<<" ">>), annots |-> [k |-> "array", n |-> 1], resources |-> NoResources]

PImage == [text |-> Str(<<>>), annots |-> NoAnnots, resources |-> WithXObjects(<<"Image">>)]

PFailImage ==
  [text |-> Str(<<>>), annots |-> NoAnnots, resources |-> WithXObjects(<<"Fail", "Image">>)]

PForm == [text |-> Str(<<"\n">>), annots |-> NoAnnots, resources |-> WithXObjects(<<"Form">>)]

PResRaise ==
  [text |-> Str(<<>>), annots |-> NoAnnots,
   resources |-> [k |-> "raise", other |-> FALSE, xobject |-> NoXObject]]

DocPages == {PText, PBlank, PAnnot, PImage, PForm, PFailImage, PResRaise}

Docs == UNION {[1..k -> DocPages] : k \in 0..MaxPages}

Truncated(b) == SubSeq(b, 1, Len(b) - 1)

Protected(b) == <<b[1], Tok("encrypt")>> \o Tail(b)

Uploads ==
  {<<>>, <<Tok("junk")>>}
    \cup {FileOf(d) : d \in Docs}
    \cup {Truncated(FileOf(<<p>>)) : p \in DocPages}
    \cup {Protected(FileOf(<<p>>)) : p \in DocPages}

\* ---------------------------------------------------------------- state
VARIABLES
  pc,              \* position in run_app / remove_blank_pages
  uploaded,        \* the file uploader's value: [present, bytes]
  pdf_bytes,       \* run_app: uploaded.getvalue()
  reader,          \* remove_blank_pages: pages of the parsed document
  writer,          \* remove_blank_pages: pages added to the PdfWriter
  total_pages,     \* remove_blank_pages: local total_pages
  removed_pages,   \* remove_blank_pages: local removed_pages
  idx,             \* remove_blank_pages: position of the for loop
  cpage,           \* the page handed to is_page_blank
  cres,            \* what is_page_blank did on cpage
  exc,             \* the exception in flight, "none" when there is none
  ret,             \* run_app: the tuple unpacked at line 122
  kept_pages,      \* run_app: kept_pages, -1 while unset
  ui,              \* run_app: the result elements shown to the user
  parse_attempted, \* whether PdfReader was invoked in this run
  run,             \* number of the run
  prev             \* summary of the previous run, when its output was re-uploaded

vars ==
  <<pc, uploaded, pdf_bytes, reader, writer, total_pages, removed_pages, idx,
    cpage, cres, exc, ret, kept_pages, ui, parse_attempted, run, prev>>

NoFile == [present |-> FALSE, bytes |-> <<>>]

NoRet == [set |-> FALSE, cleaned_bytes |-> <<>>, total_pages |-> 0, removed_pages |-> 0]

NoPrev == [valid |-> FALSE, total |-> 0, removed |-> 0, kept |-> 0, pages |-> <<>>]

WarningUI == {"warning"}

ErrorUI == {"error", "exception"}

SuccessUI == {"success", "summary", "download_button"}

Fresh ==
  /\ pdf_bytes = <<>>
  /\ reader = <<>>
  /\ writer = <<>>
  /\ total_pages = 0
  /\ removed_pages = 0
  /\ idx = 0
  /\ cpage = NoPage
  /\ cres = NoResult
  /\ exc = "none"
  /\ ret = NoRet
  /\ kept_pages = -1
  /\ ui = {}
  /\ parse_attempted = FALSE

Init ==
  /\ pc = "idle"
  /\ uploaded = NoFile
  /\ run = 1
  /\ prev = NoPrev
  /\ Fresh

\* -------------------------------------------------------------- run_app
\* line 106: the user selects a file
Upload ==
  /\ pc = "idle"
  /\ ~uploaded.present
  /\ \E b \in Uploads : uploaded' = [present |-> TRUE, bytes |-> b]
  /\ UNCHANGED <<pc, pdf_bytes, reader, writer, total_pages, removed_pages, idx,
                 cpage, cres, exc, ret, kept_pages, ui, parse_attempted, run, prev>>

\* lines 112-115: the button is enabled once a file is there; a click runs
\* the body of `if uploaded and run_clicked`
ClickRun ==
  /\ pc = "idle"
  /\ uploaded.present
  /\ pdf_bytes' = uploaded.bytes
  /\ pc' = "check_empty"
  /\ UNCHANGED <<uploaded, reader, writer, total_pages, removed_pages, idx,
                 cpage, cres, exc, ret, kept_pages, ui, parse_attempted, run, prev>>

\* the empty check without its return
CheckEmptyFallThrough ==
  /\ pc = "check_empty"
  /\ ui' = IF pdf_bytes = <<>> THEN WarningUI ELSE ui
  /\ pc' = "parse"
  /\ UNCHANGED <<uploaded, pdf_bytes, reader, writer, total_pages, removed_pages, idx,
                 cpage, cres, exc, ret, kept_pages, parse_attempted, run, prev>>

\* lines 116-118
CheckEmpty ==
  /\ pc = "check_empty"
  /\ IF pdf_bytes = <<>>
       THEN ui' = WarningUI /\ pc' = "done"
       ELSE ui' = ui /\ pc' = "parse"
  /\ UNCHANGED <<uploaded, pdf_bytes, reader, writer, total_pages, removed_pages, idx,
                 cpage, cres, exc, ret, kept_pages, parse_attempted, run, prev>>

\* --------------------------------------------------- remove_blank_pages
\* lines 45-46
Parse ==
  /\ pc = "parse"
  /\ parse_attempted' = TRUE
  /\ IF Parseable(pdf_bytes)
       THEN /\ reader' = PagesOf(pdf_bytes)
            /\ writer' = <<>>
            /\ pc' = "count"
            /\ exc' = exc
       ELSE /\ exc' = "parse"
            /\ pc' = "except"
            /\ UNCHANGED <<reader, writer>>
  /\ UNCHANGED <<uploaded, pdf_bytes, total_pages, removed_pages, idx, cpage, cres,
                 ret, kept_pages, ui, run, prev>>

\* lines 48-49
CountPages ==
  /\ pc = "count"
  /\ IF Encrypted(pdf_bytes)
       THEN /\ exc' = "not_decrypted"
            /\ pc' = "except"
            /\ UNCHANGED <<total_pages, removed_pages, idx>>
       ELSE /\ total_pages' = Len(reader)
            /\ removed_pages' = 0
            /\ idx' = 1
            /\ pc' = "loop"
            /\ exc' = exc
  /\ UNCHANGED <<uploaded, pdf_bytes, reader, writer, cpage, cres, ret, kept_pages,
                 ui, parse_attempted, run, prev>>

\* pages inserted at the front of the writer
add_page_front(w, page) == <<page>> \o w

\* line 55
add_page(w, page) == Append(w, page)

\* the increment of line 53 outside the if
count_every_page(removed, blank) == removed + 1

\* lines 52-53: removed_pages after one page
next_removed(removed, blank) == IF blank THEN removed + 1 ELSE removed

\* the `continue` of line 54 missing
no_continue(w, page, blank) == add_page(w, page)

\* lines 52-55: the writer after one page
next_writer(w, page, blank) == IF blank THEN w ELSE add_page(w, page)

\* lines 51-55, one iteration
LoopBody ==
  /\ pc = "loop"
  /\ idx <= Len(reader)
  /\ cpage' = reader[idx]
  /\ cres' = is_page_blank(reader[idx])
  /\ IF cres'.kind = "raise"
       THEN /\ exc' = "classify"
            /\ pc' = "except"
            /\ UNCHANGED <<removed_pages, writer, idx>>
       ELSE /\ removed_pages' = next_removed(removed_pages, cres'.blank)
            /\ writer' = next_writer(writer, reader[idx], cres'.blank)
            /\ idx' = idx + 1
            /\ UNCHANGED <<pc, exc>>
  /\ UNCHANGED <<uploaded, pdf_bytes, reader, total_pages, ret, kept_pages, ui,
                 parse_attempted, run, prev>>

\* line 51: the iterator is exhausted
LoopExit ==
  /\ pc = "loop"
  /\ idx > Len(reader)
  /\ pc' = "write"
  /\ UNCHANGED <<uploaded, pdf_bytes, reader, writer, total_pages, removed_pages, idx,
                 cpage, cres, exc, ret, kept_pages, ui, parse_attempted, run, prev>>

\* What a re-parse of the written file finds for the pages handed to the
\* writer: pypdf clones and re-serializes each page and may rewrite its
\* internal structure, so one page may come back as another dictionary.
Reserialized(pages) ==
  {pages} \cup {[pages EXCEPT ![i] = q] : i \in 1..Len(pages), q \in DocPages}

\* lines 57-60 and the unpacking of line 122
Write ==
  /\ pc = "write"
  /\ \E out \in Reserialized(writer) :
       ret' = [set |-> TRUE, cleaned_bytes |-> PdfWrite(out),
               total_pages |-> total_pages, removed_pages |-> removed_pages]
  /\ pc' = "summary"
  /\ UNCHANGED <<uploaded, pdf_bytes, reader, writer, total_pages, removed_pages, idx,
                 cpage, cres, exc, kept_pages, ui, parse_attempted, run, prev>>

\* line 58: writer.write raises
WriteRaise ==
  /\ pc = "write"
  /\ exc' = "write"
  /\ pc' = "except"
  /\ UNCHANGED <<uploaded, pdf_bytes, reader, writer, total_pages, removed_pages, idx,
                 cpage, cres, ret, kept_pages, ui, parse_attempted, run, prev>>

\* ---------------------------------------------------- run_app, continued
\* an except clause that reports the error and carries on to the summary
HostExceptFallThrough ==
  /\ pc = "except"
  /\ kept_pages' = total_pages - removed_pages
  /\ ui' = ErrorUI \cup SuccessUI
  /\ pc' = "done"
  /\ UNCHANGED <<uploaded, pdf_bytes, reader, writer, total_pages, removed_pages, idx,
                 cpage, cres, exc, ret, parse_attempted, run, prev>>

\* lines 123-126
HostExcept ==
  /\ pc = "except"
  /\ ui' = ErrorUI
  /\ pc' = "done"
  /\ UNCHANGED <<uploaded, pdf_bytes, reader, writer, total_pages, removed_pages, idx,
                 cpage, cres, exc, ret, kept_pages, parse_attempted, run, prev>>

\* lines 128-141
HostSummary ==
  /\ pc = "summary"
  /\ kept_pages' = ret.total_pages - ret.removed_pages
  /\ ui' = SuccessUI
  /\ pc' = "done"
  /\ UNCHANGED <<uploaded, pdf_bytes, reader, writer, total_pages, removed_pages, idx,
                 cpage, cres, exc, ret, parse_attempted, run, prev>>

\* The user downloads the cleaned file (line 136), uploads it again and
\* clicks the button: a new script run on the previous run's output.
Reupload ==
  /\ pc = "done"
  /\ "download_button" \in ui
  /\ ret.set
  /\ run < MaxRuns
  /\ run' = run + 1
  /\ prev' = [valid |-> TRUE, total |-> ret.total_pages, removed |-> ret.removed_pages,
              kept |-> kept_pages, pages |-> writer]
  /\ uploaded' = [present |-> TRUE, bytes |-> ret.cleaned_bytes]
  /\ pc' = "check_empty"
  /\ pdf_bytes' = ret.cleaned_bytes
  /\ reader' = <<>>
  /\ writer' = <<>>
  /\ total_pages' = 0
  /\ removed_pages' = 0
  /\ idx' = 0
  /\ cpage' = NoPage
  /\ cres' = NoResult
  /\ exc' = "none"
  /\ ret' = NoRet
  /\ kept_pages' = -1
  /\ ui' = {}
  /\ parse_attempted' = FALSE

Next ==
  \/ Upload
  \/ ClickRun
  \/ CheckEmpty
  \/ Parse
  \/ CountPages
  \/ LoopBody
  \/ LoopExit
  \/ Write
  \/ WriteRaise
  \/ HostExcept
  \/ HostSummary
  \/ Reupload

Spec == Init /\ [][Next]_vars

\* ------------------------------------------- the classifier on its own
InitClassify ==
  /\ pc = "classify"
  /\ cpage \in AllPages
  /\ uploaded = NoFile
  /\ run = 1
  /\ prev = NoPrev
  /\ pdf_bytes = <<>>
  /\ reader = <<>>
  /\ writer = <<>>
  /\ total_pages = 0
  /\ removed_pages = 0
  /\ idx = 0
  /\ cres = NoResult
  /\ exc = "none"
  /\ ret = NoRet
  /\ kept_pages = -1
  /\ ui = {}
  /\ parse_attempted = FALSE

\* lines 10-37 applied to one page
Classify ==
  /\ pc = "classify"
  /\ cres' = is_page_blank(cpage)
  /\ pc' = "classified"
  /\ UNCHANGED <<uploaded, pdf_bytes, reader, writer, total_pages, removed_pages, idx,
                 cpage, exc, ret, kept_pages, ui, parse_attempted, run, prev>>

NextClassify == Classify

SpecClassify == InitClassify /\ [][NextClassify]_vars

\* ---------------------------------------------------------- properties
IsKept(page) == is_page_blank(page).kind = "return" /\ ~is_page_blank(page).blank

Returned == ret.set /\ pc \in {"summary", "done"}

\* C1: the pages in the writer are exactly the pages of the input read so
\* far that is_page_blank found not blank, in their original order; on
\* return this is the whole input document filtered.
C1_OutputIsNonBlankSubsequence ==
  /\ pc = "loop" => writer = SelectSeq(SubSeq(reader, 1, idx - 1), IsKept)
  /\ (pc = "write" \/ Returned) =>
       /\ reader = PagesOf(pdf_bytes)
       /\ writer = SelectSeq(reader, IsKept)
       /\ ((\A i \in 1..Len(reader) : IsKept(reader[i])) => writer = reader)

C1_Witness ==
  /\ pc = "done"
  /\ ret.set
  /\ reader = <<PText, PBlank, PImage>>
  /\ writer = <<PText, PImage>>

OnlyWhitespace(t) == t.k = "str" => \A i \in 1..Len(t.s) : t.s[i] \in Whitespace

DeclaresAnnotations(a) == a.k = "array" /\ a.n >= 1

HasImageEntry(r) ==
  /\ r.k = "dict"
  /\ r.xobject.k = "dict"
  /\ \E i \in 1..Len(r.xobject.entries) : r.xobject.entries[i] = "Image"

\* C2: when the inspection of a page raises no error at all, the page is
\* blank exactly when its text is only whitespace, it declares no
\* annotations and no entry of its XObject mapping is an image.
C2_BlankIffNoSignals ==
  (pc = "classified" /\ cres.kind = "return" /\ ~cres.swallowed) =>
    (cres.blank <=>
       /\ OnlyWhitespace(cpage.text)
       /\ ~DeclaresAnnotations(cpage.annots)
       /\ ~HasImageEntry(cpage.resources))

C2_Witness ==
  /\ pc = "classified"
  /\ cpage.text = Str(<<" ", "\n">>)
  /\ cpage.annots = [k |-> "array", n |-> 0]
  /\ cpage.resources = WithXObjects(<<"Form">>)
  /\ cres.kind = "return"
  /\ cres.blank

\* C3: in the page loop removed_pages plus the pages in the writer is the
\* number of pages processed; on return the host's kept_pages is the number
\* of pages of the output and removed + kept = total, 0 <= removed <= total.
C3_CountingInvariant ==
  /\ pc = "loop" =>
       /\ removed_pages + Len(writer) = idx - 1
       /\ idx - 1 <= total_pages
  /\ pc = "write" => removed_pages + Len(writer) = total_pages
  /\ (pc = "done" /\ ret.set) =>
       /\ ret.removed_pages + kept_pages = ret.total_pages
       /\ kept_pages = Len(writer)
       /\ kept_pages = Len(PagesOf(ret.cleaned_bytes))
       /\ ret.total_pages = Len(PagesOf(pdf_bytes))
       /\ 0 <= ret.removed_pages
       /\ ret.removed_pages <= ret.total_pages

C3_Witness ==
  /\ pc = "done"
  /\ ret.set
  /\ ret.total_pages = 3
  /\ ret.removed_pages = 2
  /\ kept_pages = 1

ResourceReads == {"/Resources", "/XObject", "get_object", "/Subtype"}

\* C4: an error raised while the classifier reads a page's resource
\* structures never leaves is_page_blank: the classifier returns a verdict.
C4_ResourceErrorsAbsorbed ==
  cres.kind = "raise" => cres.reads[Len(cres.reads)] \notin ResourceReads

\* C5: when parsing or serializing raises, nothing is returned and the run
\* ends in the error state, with no summary and no download.
C5_ErrorsAbortWithoutOutput ==
  exc \in {"parse", "not_decrypted", "write"} =>
    /\ ~ret.set
    /\ pc \in {"except", "done"}
    /\ kept_pages = -1
    /\ pc = "done" => ui = ErrorUI

C5_Witness ==
  /\ pc = "done"
  /\ exc = "write"
  /\ Len(writer) >= 1
  /\ ui = ErrorUI

\* C6: on an empty buffer PdfReader is never invoked, nothing is produced
\* and the run ends with the warning, which no run that raised ends with.
C6_EmptyInputRejectedBeforeParsing ==
  /\ (uploaded.present /\ uploaded.bytes = <<>>) =>
       /\ ~parse_attempted
       /\ ~ret.set
       /\ exc = "none"
       /\ pc \in {"idle", "check_empty", "done"}
       /\ pc = "done" => ui = WarningUI
  /\ (pc = "done" /\ exc # "none") => ui # WarningUI

C6_Witness ==
  /\ pc = "done"
  /\ uploaded.present
  /\ pdf_bytes = <<>>
  /\ ui = WarningUI

\* the pages found in the re-uploaded output are the pages the previous
\* run handed to its writer
Preserved == prev.valid /\ PagesOf(pdf_bytes) = prev.pages

\* C7: a second run on the output of a first run, when serialization
\* preserved the kept pages, removes nothing: it returns removed = 0, total
\* equal to the first run's kept count, and the same page sequence.
C7_SecondPassRemovesNothing ==
  (Preserved /\ pc \in {"loop", "write", "summary", "done"}) =>
    /\ exc \in {"none", "write"}
    /\ removed_pages = 0
    /\ pc # "loop" => writer = prev.pages
    /\ (pc = "done" /\ exc = "none") =>
         /\ ret.set
         /\ ret.removed_pages = 0
         /\ ret.total_pages = prev.kept
         /\ kept_pages = prev.kept
         /\ PagesOf(ret.cleaned_bytes) \in Reserialized(prev.pages)

C7_Witness ==
  /\ Preserved
  /\ pc = "done"
  /\ exc = "none"
  /\ prev.removed >= 1
  /\ prev.kept = 2
  /\ ret.total_pages = 2
  /\ ret.removed_pages = 0

\* C8: a run in which every page was blank does not end as an ordinary
\* success with the zero-page file offered for download.
C8_AllBlankIsReported ==
  (pc = "done" /\ ret.set /\ ret.total_pages >= 1
     /\ ret.removed_pages = ret.total_pages) =>
    (ui # SuccessUI /\ "download_button" \notin ui)

RECURSIVE FailingAsOther(_)
FailingAsOther(entries) ==
  IF entries = <<>> THEN <<>>
  ELSE <<IF Head(entries) = "Fail" THEN "Form" ELSE Head(entries)>>
         \o FailingAsOther(Tail(entries))

WithFailingAsOther(page) ==
  [page EXCEPT !.resources.xobject.entries = FailingAsOther(@)]

\* C9: the verdict on a page equals the verdict on the same page with each
\* failing XObject entry replaced by a non-image entry.
C9_FailingEntryIsOther ==
  (pc = "classified" /\ cres.kind = "return" /\ cpage.resources.xobject.k = "dict") =>
    cres.blank = is_page_blank(WithFailingAsOther(cpage)).blank

HasText(t) == t.k = "str" /\ \E i \in 1..Len(t.s) : t.s[i] \notin Whitespace

\* C10: the signals are read in the order text, annotations, resources;
\* with text nothing else is read, with annotations the resources are not
\* read, and either way the page is found not blank without an error.
C10_ShortCircuitOrder ==
  pc = "classified" =>
    /\ cres.reads[1] = "extract_text"
    /\ \A i \in 2..Len(cres.reads) :
         /\ cres.reads[i] # "extract_text"
         /\ cres.reads[i] = "/Annots" <=> i = 2
    /\ HasText(cpage.text) => cres = Ret(FALSE, <<"extract_text">>, FALSE)
    /\ (cpage.text.k # "raise" /\ ~HasText(cpage.text) /\ DeclaresAnnotations(cpage.annots)) =>
         cres = Ret(FALSE, <<"extract_text", "/Annots">>, FALSE)

C10_Witness ==
  /\ pc = "classified"
  /\ cpage.text = Str(<<" ", "a">>)
  /\ cpage.annots = [k |-> "array", n |-> 1]
  /\ cpage.resources.k = "raise"
  /\ cres.kind = "return"
  /\ ~cres.blank
  /\ cres.reads = <<"extract_text">>

====
